---- MODULE Spec2Model ----
(***************************************************************************)
(* ApiForge-Server: the /api/proxy request-execution engine of             *)
(* src/server.js (validation, egress policy, outbound request building,    *)
(* dispatch through axios and normalisation of the outcome).               *)
(*                                                                         *)
(* JavaScript strings whose characters matter (URLs, methods, header       *)
(* names, timeout strings) are sequences of one-character strings, so      *)
(* toLowerCase, startsWith, parseInt and URL parsing are computed.         *)
(***************************************************************************)
EXTENDS Integers, Sequences, FiniteSets, TLC

\* ------------------------------------------------------------------ bounds
\* Date.now() readings range over 0..MaxClock
MaxClock == 1

\* ------------------------------------------------ JavaScript value helpers
\* the value `undefined` where a string is expected (a missing field)
Undefined == <<"<undefined>">>
\* a truthy value that is not a string (a JSON number such as 5)
NumberValue == <<"<number>">>

IsString(v) == v # Undefined /\ v # NumberValue

\* JavaScript truthiness of a string-or-undefined value: undefined and ''
\* are falsy
Truthy(v) == v # Undefined /\ v # <<>>

UpperCase == <<"A","B","C","D","E","F","G","H","I","J","K","L","M",
               "N","O","P","Q","R","S","T","U","V","W","X","Y","Z">>
LowerCase == <<"a","b","c","d","e","f","g","h","i","j","k","l","m",
               "n","o","p","q","r","s","t","u","v","w","x","y","z">>

LowerChar(c) ==
  IF \E i \in 1..26 : UpperCase[i] = c
    THEN LowerCase[CHOOSE i \in 1..26 : UpperCase[i] = c]
    ELSE c

\* String.prototype.toLowerCase
ToLowerCase(s) == [i \in 1..Len(s) |-> LowerChar(s[i])]

\* String.prototype.startsWith
StartsWith(s, prefix) ==
  /\ Len(prefix) <= Len(s)
  /\ SubSeq(s, 1, Len(prefix)) = prefix

\* position of the first occurrence of character c in s at or after from,
\* Len(s) + 1 when there is none
RECURSIVE IndexFrom(_, _, _)
IndexFrom(s, c, from) ==
  IF from > Len(s) THEN Len(s) + 1
  ELSE IF s[from] = c THEN from
  ELSE IndexFrom(s, c, from + 1)

Digits == <<"0","1","2","3","4","5","6","7","8","9">>
IsDigit(c) == \E i \in 1..10 : Digits[i] = c
DigitValue(c) == (CHOOSE i \in 1..10 : Digits[i] = c) - 1

\* ---------------------------------------------------------- URL parsing
\* new URL(url) for absolute URLs of the form scheme://host[:port][/path]:
\* it throws when there is no scheme or, for http and https, no host; the
\* hostname is lower-cased, an empty path becomes "/".
IsLetter(c) == \E i \in 1..26 : UpperCase[i] = c \/ LowerCase[i] = c
Letters(s) == \A i \in 1..Len(s) : IsLetter(s[i])

SchemeEnd(s) == IndexFrom(s, ":", 1)

HasScheme(s) ==
  /\ SchemeEnd(s) <= Len(s)
  /\ SchemeEnd(s) > 1
  /\ Letters(SubSeq(s, 1, SchemeEnd(s) - 1))
  /\ Len(s) >= SchemeEnd(s) + 2
  /\ s[SchemeEnd(s) + 1] = "/"
  /\ s[SchemeEnd(s) + 2] = "/"

AuthorityStart(s) == SchemeEnd(s) + 3
AuthorityEnd(s) == IndexFrom(s, "/", AuthorityStart(s)) - 1
Authority(s) == SubSeq(s, AuthorityStart(s), AuthorityEnd(s))

\* the host part of an authority: up to the port's colon; an IPv6 literal
\* keeps its brackets
HostOf(auth) ==
  IF Len(auth) > 0 /\ auth[1] = "["
    THEN SubSeq(auth, 1, IndexFrom(auth, "]", 1))
    ELSE SubSeq(auth, 1, IndexFrom(auth, ":", 1) - 1)

PortOf(auth) == SubSeq(auth, Len(HostOf(auth)) + 1, Len(auth))

PathOf(s) ==
  IF AuthorityEnd(s) >= Len(s) THEN <<"/">>
  ELSE SubSeq(s, AuthorityEnd(s) + 1, Len(s))

\* a URL parser that accepts any string
URLParsesLenient(s) == IsString(s)

\* does new URL(s) return (TRUE) or throw (FALSE)
URLParses(s) == IsString(s) /\ HasScheme(s) /\ Len(HostOf(Authority(s))) > 0

\* targetUrl.hostname
Hostname(s) == ToLowerCase(HostOf(Authority(s)))

\* targetUrl.toString()
Href(s) ==
  ToLowerCase(SubSeq(s, 1, SchemeEnd(s) - 1)) \o <<":", "/", "/">>
    \o Hostname(s) \o PortOf(Authority(s)) \o PathOf(s)

\* ------------------------------------------------------------- parseInt
\* value of the leading run of decimal digits of s starting at i
RECURSIVE LeadingDigits(_, _, _)
LeadingDigits(s, i, acc) ==
  IF i <= Len(s) /\ IsDigit(s[i])
    THEN LeadingDigits(s, i + 1, acc * 10 + DigitValue(s[i]))
    ELSE acc

\* a JavaScript number that may be NaN
Num(n) == [nan |-> FALSE, n |-> n]
NaN == [nan |-> TRUE, n |-> 0]

\* the timeout field of the payload as a JavaScript value
TUndefined == [type |-> "undefined", n |-> 0, s |-> <<>>]
TNull == [type |-> "null", n |-> 0, s |-> <<>>]
TNumber(n) == [type |-> "number", n |-> n, s |-> <<>>]
TString(s) == [type |-> "string", n |-> 0, s |-> s]

\* the destructuring default `timeout = 30000` applies to undefined only
DefaultTimeout == 30000
TimeoutOrDefault(t) == IF t.type = "undefined" THEN TNumber(DefaultTimeout) ELSE t

\* parseInt(timeout): a number is its integer value, a string the value of
\* its leading digits, anything without leading digits (null included) NaN
ParseInt(t) ==
  CASE t.type = "number" -> Num(t.n)
    [] t.type = "string" ->
         IF Len(t.s) > 0 /\ IsDigit(t.s[1]) THEN Num(LeadingDigits(t.s, 1, 0)) ELSE NaN
    [] OTHER -> NaN

\* ------------------------------------------------------ egress denylist
P172(a, b) == <<"1", "7", "2", ".", a, b, ".">>

blockedHosts == {
  <<"l", "o", "c", "a", "l", "h", "o", "s", "t">>,
  <<"1", "2", "7", ".", "0", ".", "0", ".", "1">>,
  <<"0", ".", "0", ".", "0", ".", "0">>,
  <<":", ":", "1">>,
  <<"1", "0", ".">>,
  <<"1", "9", "2", ".", "1", "6", "8", ".">>,
  P172("1","6"), P172("1","7"), P172("1","8"), P172("1","9"),
  P172("2","0"), P172("2","1"), P172("2","2"), P172("2","3"),
  P172("2","4"), P172("2","5"), P172("2","6"), P172("2","7"),
  P172("2","8"), P172("2","9"), P172("3","0"), P172("3","1") }

\* a denylist matched by equality with the hostname
IsBlockedExact(hostname) == hostname \in blockedHosts

\* blockedHosts.some(blocked => hostname.startsWith(blocked))
IsBlocked(hostname) == \E blocked \in blockedHosts : StartsWith(hostname, blocked)

\* process.env.NODE_ENV === 'production'
Restricted(nodeEnv) == nodeEnv = "production"

\* ------------------------------------------------------ header building
disallowedHeaders == {
  <<"h", "o", "s", "t">>,
  <<"o", "r", "i", "g", "i", "n">>,
  <<"r", "e", "f", "e", "r", "e", "r">>,
  <<"u", "s", "e", "r", "-", "a", "g", "e", "n", "t">>,
  <<"a", "c", "c", "e", "p", "t", "-", "e", "n", "c", "o", "d", "i", "n", "g">>,
  <<"c", "o", "n", "n", "e", "c", "t", "i", "o", "n">>,
  <<"c", "o", "n", "t", "e", "n", "t", "-", "l", "e", "n", "g", "t", "h">> }

DefaultUserAgent == "APITestingTool/1.0.0"

UserAgentKey == <<"u", "s", "e", "r", "-", "a", "g", "e", "n", "t">>

AuthorizationKey == <<"A", "u", "t", "h", "o", "r", "i", "z", "a", "t", "i", "o", "n">>

\* a headers value: undefined, a non-object (a string) or an object whose
\* own properties are map
NoHeaders == [kind |-> "undefined", map |-> [k \in {} |-> ""]]
HeadersObject(m) == [kind |-> "object", map |-> m]

\* obj[key] = value
Put(m, key, value) == [k \in DOMAIN m \cup {key} |-> IF k = key THEN value ELSE m[k]]

\* delete obj[key] for each key of keys: removes the property whose name is
\* exactly key
DeleteKeys(m, keys) == [k \in DOMAIN m \ keys |-> m[k]]

\* obj[key] is truthy
HasTruthy(m, key) == key \in DOMAIN m /\ m[key] # ""

\* headers && typeof headers === 'object'
IsHeaderObject(h) == h.kind = "object"

\* config.headers after the "Set headers" block
BuildHeaders(h) ==
  IF IsHeaderObject(h)
    THEN LET stripped == DeleteKeys(h.map, disallowedHeaders)
         IN HeadersObject(IF HasTruthy(stripped, UserAgentKey)
                            THEN stripped
                            ELSE Put(stripped, UserAgentKey, DefaultUserAgent))
    ELSE NoHeaders

\* auth && auth.type === 'medimapper' && auth.token
NoAuth == [present |-> FALSE, type |-> "", token |-> ""]
AuthApplies(auth) == auth.present /\ auth.type = "medimapper" /\ auth.token # ""

BearerValue(token) == "Bearer " \o token

\* ------------------------------------------------------ body attachment
bodyMethods == { <<"p", "o", "s", "t">>, <<"p", "u", "t">>, <<"p", "a", "t", "c", "h">>, <<"d", "e", "l", "e", "t", "e">> }

\* truthiness of the body, a JavaScript value written as its literal
BodyTruthy(b) == b \notin {"undefined", "null", "false", "0", "''"}

\* ['post','put','patch','delete'].includes(method.toLowerCase()) && body
AttachesBody(method, b) == ToLowerCase(method) \in bodyMethods /\ BodyTruthy(b)

\* validateStatus of the axios config
validateStatus(status) == status >= 200 /\ status < 600

\* ------------------------------------------------------------ responses
\* a response body value (response.data): a string or an already parsed
\* object; text is the string itself, or the object's compact JSON text;
\* json tells whether JSON.parse(text) returns (TRUE) or throws (FALSE)
NoData == [type |-> "undefined", text |-> <<>>, json |-> FALSE]

\* JSON.stringify(data).length: a string is quoted and its quotes and
\* backslashes are escaped, an object is its compact JSON text
Escapes(text) == Cardinality({i \in 1..Len(text) : text[i] \in {"\"", "\\"}})
StringifyLength(d) ==
  IF d.type = "string" THEN Len(d.text) + 2 + Escapes(d.text) ELSE Len(d.text)

\* contentType.includes('application/json')
IncludesJson(contentType) ==
  contentType \in {"application/json", "application/json; charset=utf-8"}

\* what res.json() was given: fields is the set of keys of the JSON object
EmptyReply ==
  [httpStatus |-> 200, fields |-> {}, error |-> "", errorFlag |-> FALSE,
   message |-> "", duration |-> 0, status |-> 0, statusText |-> "", headers |-> "",
   data |-> [parsed |-> FALSE, raw |-> NoData], size |-> 0,
   redirected |-> FALSE]

\* res.status(httpStatus).json({ error, duration })
Failure(httpStatus, message, duration) ==
  [EmptyReply EXCEPT !.httpStatus = httpStatus, !.fields = {"error", "duration"},
                     !.error = message, !.duration = duration]

\* lines 521-535: the best-effort parse of the success path
SuccessData(response) ==
  IF IncludesJson(response.contentType) /\ response.data.type = "string"
     /\ response.data.json
    THEN [parsed |-> TRUE, raw |-> response.data]
    ELSE [parsed |-> FALSE, raw |-> response.data]

\* lines 537-546: res.json({ status, statusText, headers, data, duration,
\* size, redirected })
SuccessReply(response, url, duration) ==
  [EmptyReply EXCEPT
     !.fields = {"status", "statusText", "headers", "data", "duration",
                 "size", "redirected"},
     !.status = response.status, !.statusText = response.statusText,
     !.headers = response.contentType, !.data = SuccessData(response),
     !.duration = duration, !.size = StringifyLength(response.data),
     !.redirected = (response.responseUrl # url)]

\* lines 578-588: the parse of the error.response branch
ErrorData(response) ==
  IF response.data.type = "string" /\ response.data.json
    THEN [parsed |-> TRUE, raw |-> response.data]
    ELSE [parsed |-> FALSE, raw |-> response.data]

\* lines 590-597: res.json({ status, statusText, headers, data, duration,
\* error: true })
UpstreamErrorReply(response, duration) ==
  [EmptyReply EXCEPT
     !.fields = {"status", "statusText", "headers", "data", "duration", "error"},
     !.status = response.status, !.statusText = response.statusText,
     !.headers = response.contentType, !.data = ErrorData(response),
     !.duration = duration, !.errorFlag = TRUE]

\* ------------------------------------------------------------ the errors
NoResponse ==
  [status |-> 0, statusText |-> "", contentType |-> "", data |-> NoData,
   responseUrl |-> Undefined]

\* a thrown or rejected error: error.code, error.message, and whether
\* error.response and error.request are set
Error(code, message, hasRequest) ==
  [code |-> code, message |-> message, hasRequest |-> hasRequest,
   hasResponse |-> FALSE, response |-> NoResponse]

ErrorWithResponse(code, message, response) ==
  [code |-> code, message |-> message, hasRequest |-> TRUE,
   hasResponse |-> TRUE, response |-> response]

\* the catch block with the error.request test ahead of error.response
CatchReplyRequestFirst(error, duration) ==
  IF error.code = "ECONNREFUSED" THEN
    Failure(503, "Connection refused - the server may be down or the URL may be incorrect", duration)
  ELSE IF error.code = "ENOTFOUND" THEN
    Failure(404, "DNS lookup failed - the hostname could not be resolved", duration)
  ELSE IF error.code = "ETIMEDOUT" THEN
    Failure(408, "Request timeout - the server took too long to respond", duration)
  ELSE IF error.hasRequest THEN
    Failure(502, "No response received from server", duration)
  ELSE IF error.hasResponse THEN
    UpstreamErrorReply(error.response, duration)
  ELSE
    Failure(500, error.message, duration)

\* lines 548-609: the catch block
CatchReply(error, duration) ==
  IF error.code = "ECONNREFUSED" THEN
    Failure(503, "Connection refused - the server may be down or the URL may be incorrect", duration)
  ELSE IF error.code = "ENOTFOUND" THEN
    Failure(404, "DNS lookup failed - the hostname could not be resolved", duration)
  ELSE IF error.code = "ETIMEDOUT" THEN
    Failure(408, "Request timeout - the server took too long to respond", duration)
  ELSE IF error.hasResponse THEN
    UpstreamErrorReply(error.response, duration)
  ELSE IF error.hasRequest THEN
    Failure(502, "No response received from server", duration)
  ELSE
    Failure(500, error.message, duration)

\* ------------------------------------------- the handler up to the await
NoConfig ==
  [method |-> <<>>, url |-> <<>>, timeout |-> NaN, headers |-> NoHeaders,
   hasData |-> FALSE, data |-> "undefined", maxRedirects |-> 0]

\* the handler's synchronous part ends in exactly one of three ways: it
\* has replied (reply), an exception reached the catch block (thrown), or
\* it called axios(config) (dispatch)
Replied(httpStatus, message) ==
  [replies |-> << [httpStatus |-> httpStatus, error |-> message] >>,
   thrown |-> FALSE, message |-> "", dispatch |-> FALSE, config |-> NoConfig]

Thrown(message) ==
  [replies |-> << >>, thrown |-> TRUE, message |-> message,
   dispatch |-> FALSE, config |-> NoConfig]

Dispatched(config) ==
  [replies |-> << >>, thrown |-> FALSE, message |-> "", dispatch |-> TRUE,
   config |-> config]

\* lines 432-466: the egress guard
PolicyBlocks(nodeEnv, url) == Restricted(nodeEnv) /\ IsBlocked(Hostname(url))

\* lines 504-507: config.headers['Authorization'] = `Bearer ${auth.token}`;
\* the assignment throws a TypeError when config.headers is undefined
AuthThrows(p) == AuthApplies(p.auth) /\ ~IsHeaderObject(BuildHeaders(p.headers))

ConfigHeaders(p) ==
  IF AuthApplies(p.auth)
    THEN HeadersObject(Put(BuildHeaders(p.headers).map, AuthorizationKey,
                           BearerValue(p.auth.token)))
    ELSE BuildHeaders(p.headers)

\* the config with the transport's own default of five redirects
BuildConfigFollowing(p) ==
  [method |-> ToLowerCase(p.method),
   url |-> Href(p.url),
   timeout |-> ParseInt(TimeoutOrDefault(p.timeout)),
   headers |-> ConfigHeaders(p),
   hasData |-> AttachesBody(p.method, p.body),
   data |-> IF AttachesBody(p.method, p.body) THEN p.body ELSE "undefined",
   maxRedirects |-> 5]

\* lines 468-512: the axios config
BuildConfig(p) ==
  [method |-> ToLowerCase(p.method),
   url |-> Href(p.url),
   timeout |-> ParseInt(TimeoutOrDefault(p.timeout)),
   headers |-> ConfigHeaders(p),
   hasData |-> AttachesBody(p.method, p.body),
   data |-> IF AttachesBody(p.method, p.body) THEN p.body ELSE "undefined",
   maxRedirects |-> 0]

\* the handler with the `return` of the 403 reply missing: it replies and
\* goes on to dispatch
ProxyPrepareNoReturn(p, nodeEnv) ==
  IF ~Truthy(p.url) THEN Replied(400, "URL is required")
  ELSE IF ~Truthy(p.method) THEN Replied(400, "HTTP method is required")
  ELSE IF ~URLParses(p.url) THEN Replied(400, "Invalid URL format")
  ELSE IF ~IsString(p.method) THEN Thrown("method.toLowerCase is not a function")
  ELSE IF AuthThrows(p) THEN
    Thrown("Cannot set properties of undefined (setting 'Authorization')")
  ELSE IF PolicyBlocks(nodeEnv, p.url) THEN
    [Dispatched(BuildConfig(p)) EXCEPT
       !.replies = << [httpStatus |-> 403, error |-> "not allowed"] >>]
  ELSE Dispatched(BuildConfig(p))

\* lines 403-517
ProxyPrepare(p, nodeEnv) ==
  IF ~Truthy(p.url) THEN Replied(400, "URL is required")
  ELSE IF ~Truthy(p.method) THEN Replied(400, "HTTP method is required")
  ELSE IF ~URLParses(p.url) THEN Replied(400, "Invalid URL format")
  ELSE IF PolicyBlocks(nodeEnv, p.url) THEN
    Replied(403, "Requests to localhost or internal networks are not allowed in production")
  ELSE IF ~IsString(p.method) THEN Thrown("method.toLowerCase is not a function")
  ELSE IF AuthThrows(p) THEN
    Thrown("Cannot set properties of undefined (setting 'Authorization')")
  ELSE Dispatched(BuildConfig(p))

\* ------------------------------------------------------------ the inputs
U_LOCALHOST == <<"h", "t", "t", "p", ":", "/", "/", "l", "o", "c", "a", "l", "h", "o", "s", "t">>
U_LOCALHOST_UPPER == <<"h", "t", "t", "p", ":", "/", "/", "L", "O", "C", "A", "L", "H", "O", "S", "T", ":", "3", "0", "0", "0", "/", "x">>
U_LOOPBACK == <<"h", "t", "t", "p", ":", "/", "/", "1", "2", "7", ".", "0", ".", "0", ".", "1", "/">>
U_TEN == <<"h", "t", "t", "p", ":", "/", "/", "1", "0", ".", "0", ".", "0", ".", "5", "/", "a">>
U_192 == <<"h", "t", "t", "p", ":", "/", "/", "1", "9", "2", ".", "1", "6", "8", ".", "1", ".", "1">>
U_172_20 == <<"h", "t", "t", "p", ":", "/", "/", "1", "7", "2", ".", "2", "0", ".", "3", ".", "4", "/">>
U_172_32 == <<"h", "t", "t", "p", ":", "/", "/", "1", "7", "2", ".", "3", "2", ".", "0", ".", "1", "/">>
U_PUBLIC == <<"h", "t", "t", "p", "s", ":", "/", "/", "a", "p", "i", ".", "e", "x", "a", "m", "p", "l", "e", ".", "c", "o", "m", "/", "v", "1">>
U_NOT_A_URL == <<"n", "o", "t", " ", "a", " ", "u", "r", "l">>

PrivateUrls == {U_LOCALHOST, U_LOCALHOST_UPPER, U_LOOPBACK, U_TEN, U_192, U_172_20}
PublicUrls == {U_172_32, U_PUBLIC}
Urls == {Undefined, <<>>, U_NOT_A_URL} \cup PrivateUrls \cup PublicUrls

M_GET == <<"G", "E", "T">>
M_POST == <<"P", "o", "s", "t">>
M_PUT == <<"P", "U", "T">>
M_PATCH == <<"p", "a", "t", "c", "h">>
M_DELETE == <<"D", "E", "L", "E", "T", "E">>
M_HEAD == <<"H", "E", "A", "D">>
Methods == {Undefined, NumberValue, M_GET, M_POST, M_PUT, M_PATCH, M_DELETE, M_HEAD}

K_HOST_CAP == <<"H", "o", "s", "t">>
K_HOST == <<"h", "o", "s", "t">>
K_ORIGIN_UPPER == <<"O", "R", "I", "G", "I", "N">>
K_USER_AGENT_CAP == <<"U", "s", "e", "r", "-", "A", "g", "e", "n", "t">>
K_AUTHORIZATION == <<"a", "u", "t", "h", "o", "r", "i", "z", "a", "t", "i", "o", "n">>
K_X_CUSTOM == <<"X", "-", "C", "u", "s", "t", "o", "m">>

\* every header value a caller supplies is marked as the caller's
CallerValues == {"caller-1", "caller-2"}

HeaderInputs == {
  NoHeaders,
  [kind |-> "string", map |-> [k \in {} |-> ""]],
  HeadersObject([k \in {} |-> ""]),
  HeadersObject([k \in {K_HOST, K_X_CUSTOM} |-> "caller-1"]),
  HeadersObject([k \in {K_HOST_CAP} |-> "caller-1"]),
  HeadersObject([k \in {K_USER_AGENT_CAP, UserAgentKey} |-> "caller-2"]),
  HeadersObject([k \in {K_AUTHORIZATION, AuthorizationKey, K_ORIGIN_UPPER} |-> "caller-1"]) }

Bodies == {"undefined", "0", "{\"a\":1}"}

Auths == {
  NoAuth,
  [present |-> TRUE, type |-> "medimapper", token |-> "tok"],
  [present |-> TRUE, type |-> "medimapper", token |-> ""],
  [present |-> TRUE, type |-> "basic", token |-> "tok"] }

Timeouts == {TUndefined, TNumber(50), TString(<<"a", "b", "c">>)}

Payloads ==
  [url : Urls, method : Methods, headers : HeaderInputs, body : Bodies,
   timeout : Timeouts, auth : Auths]

NodeEnvs == {"production", "development"}

\* what the upstream can answer; with maxRedirects 0 axios uses node's own
\* http transport, which reports no responseUrl
StubResponse(status, statusText, contentType, type, text, json) ==
  [status |-> status, statusText |-> statusText, contentType |-> contentType,
   data |-> [type |-> type, text |-> text, json |-> json],
   responseUrl |-> Undefined]

StubResponses == {
  StubResponse(200, "OK", "application/json", "string", <<"{", "\"", "x", "\"", ":", "1", "}">>, TRUE),
  StubResponse(301, "Moved Permanently", "text/plain", "string", <<>>, FALSE),
  StubResponse(404, "Not Found", "application/json", "object", <<"{", "\"", "e", "r", "r", "o", "r", "\"", ":", "\"", "n", "o", "t", " ", "f", "o", "u", "n", "d", "\"", "}">>, TRUE),
  StubResponse(500, "Internal Server Error", "text/plain", "string", <<"o", "o", "p", "s">>, FALSE),
  StubResponse(600, "Unknown", "text/plain", "string", <<"1">>, TRUE) }

\* error codes node reports for a failed socket
NetworkErrorCodes == {"ECONNREFUSED", "ENOTFOUND", "ETIMEDOUT", "ECONNRESET"}

\* ------------------------------------------------------------ the store
\* ids of the three tables; an id is unused (free), holds a document (live)
\* or held one that was deleted (deleted), and is never reused
MaxHistory == 1
MaxCollections == 1
MaxItems == 2

HistoryIds == 1..MaxHistory
CollectionIds == 1..MaxCollections
ItemIds == 1..MaxItems

Users == {"alice", "bob"}

FreeRecord ==
  [state |-> "free", userId |-> "", collectionId |-> 0, updatedAt |-> 0]
DeletedRecord == [FreeRecord EXCEPT !.state = "deleted"]

\* what a function returns: a value ("ok"), null, or a thrown error, and
\* the deletedItems count of deleteCollection's return value
Reply(value, deletedItems) == [value |-> value, deletedItems |-> deletedItems]

\* ------------------------------------------------------------ the state
VARIABLES
  nodeEnv,     \* process.env.NODE_ENV
  pc,          \* "idle", "awaiting" (suspended in await axios(config)), "done"
  req,         \* req.body of the call
  now,         \* the last reading of Date.now()
  startTime,   \* startTime of the call
  config,      \* the config handed to axios
  axiosCalls,  \* how many times axios(config) was called
  attempts,    \* how many outbound exchanges the transport started
  outcome,     \* how the outbound exchange ended
  sent,        \* the responses written to res, in order
  history,     \* the history table of the store
  collections, \* the collections table of the store
  items,       \* the collection items table of the store
  result       \* what the last function of the store returned

proxyVars ==
  <<nodeEnv, pc, req, startTime, config, axiosCalls, attempts, outcome, sent>>

storeVars == <<history, collections, items, result>>

vars == <<proxyVars, now, storeVars>>

NoPayload ==
  [url |-> Undefined, method |-> Undefined, headers |-> NoHeaders,
   body |-> "undefined", timeout |-> TUndefined, auth |-> NoAuth]

NoOutcome == [kind |-> "none", code |-> "", response |-> NoResponse]

\* the store before any operation: every id of every table is unused
StoreInit ==
  /\ history = [h \in HistoryIds |-> FreeRecord]
  /\ collections = [c \in CollectionIds |-> FreeRecord]
  /\ items = [i \in ItemIds |-> FreeRecord]
  /\ result = Reply("none", 0)

Init ==
  /\ nodeEnv \in NodeEnvs
  /\ pc = "idle"
  /\ req = NoPayload
  /\ now = 0
  /\ startTime = 0
  /\ config = NoConfig
  /\ axiosCalls = 0
  /\ attempts = 0
  /\ outcome = NoOutcome
  /\ sent = << >>
  /\ StoreInit

\* the replies of a prepared call, each stamped with Date.now() - startTime
Stamp(replies, duration) ==
  [i \in 1..Len(replies) |-> Failure(replies[i].httpStatus, replies[i].error, duration)]

\* app.post('/api/proxy') from its first line to the await (or to the
\* response, when the call ends before it)
ReceiveFrom(payloads) ==
  /\ pc = "idle"
  /\ \E p \in payloads, t \in now..MaxClock :
       LET r == ProxyPrepare(p, nodeEnv) IN
         /\ req' = p
         /\ startTime' = now
         /\ config' = r.config
         /\ IF r.dispatch
              THEN /\ axiosCalls' = axiosCalls + 1
                   /\ attempts' = attempts + 1
                   /\ now' = now
              ELSE /\ axiosCalls' = axiosCalls
                   /\ attempts' = attempts
                   /\ now' = t
         /\ sent' = sent \o Stamp(r.replies, t - now)
                         \o (IF r.thrown
                               THEN << CatchReply(Error("", r.message, FALSE), t - now) >>
                               ELSE << >>)
         /\ pc' = IF r.dispatch THEN "awaiting"
                  ELSE IF r.thrown \/ Len(r.replies) > 0 THEN "done" ELSE "idle"
         /\ outcome' = IF r.thrown THEN [NoOutcome EXCEPT !.kind = "thrown"] ELSE NoOutcome
  /\ UNCHANGED <<nodeEnv, storeVars>>

Receive == ReceiveFrom(Payloads)

\* the handler resumes after the await with the settled promise
Resume(reply, t, o) ==
  /\ now' = t
  /\ sent' = Append(sent, reply)
  /\ outcome' = o
  /\ pc' = "done"
  /\ UNCHANGED <<nodeEnv, req, startTime, config, axiosCalls, attempts, storeVars>>

\* a 3xx answer: the transport follows it with a further request while
\* config.maxRedirects allows one more
IsRedirect(response) == response.status >= 300 /\ response.status < 400

Follows(response) == IsRedirect(response) /\ attempts <= config.maxRedirects

FollowRedirect ==
  /\ attempts' = attempts + 1
  /\ UNCHANGED <<nodeEnv, pc, req, now, startTime, config, axiosCalls, outcome,
                 sent, storeVars>>

\* the upstream answers: axios resolves when validateStatus accepts the
\* status and rejects with error.response otherwise
AxiosRespondsWith(responses) ==
  /\ pc = "awaiting"
  /\ \E response \in responses, t \in now..MaxClock :
       IF Follows(response)
         THEN FollowRedirect
         ELSE Resume(IF validateStatus(response.status)
                       THEN SuccessReply(response, req.url, t - startTime)
                       ELSE CatchReply(ErrorWithResponse("ERR_BAD_RESPONSE",
                                         "Request failed with status code", response),
                                       t - startTime),
                     t, [kind |-> "response", code |-> "", response |-> response])

AxiosResponds == AxiosRespondsWith(StubResponses)

\* the socket fails: refused, unresolved, connect timeout or reset
AxiosNetworkError ==
  /\ pc = "awaiting"
  /\ \E code \in NetworkErrorCodes, t \in now..MaxClock :
       Resume(CatchReply(Error(code, code, TRUE), t - startTime), t,
              [kind |-> "network", code |-> code, response |-> NoResponse])

\* config.timeout elapses: axios arms its timer only for a truthy timeout,
\* aborts the request and rejects with code ECONNABORTED
TimerArmed(c) == ~c.timeout.nan /\ c.timeout.n # 0

AxiosTimeout ==
  /\ pc = "awaiting"
  /\ TimerArmed(config)
  /\ \E t \in now..MaxClock :
       Resume(CatchReply(Error("ECONNABORTED", "timeout exceeded", TRUE),
                         t - startTime), t,
              [kind |-> "timeout", code |-> "ECONNABORTED", response |-> NoResponse])

\* axios rejects before any request exists (a config it cannot use)
AxiosLocalFault ==
  /\ pc = "awaiting"
  /\ \E t \in now..MaxClock :
       Resume(CatchReply(Error("ERR_BAD_OPTION", "Unsupported protocol", FALSE),
                         t - startTime), t,
              [kind |-> "local", code |-> "ERR_BAD_OPTION", response |-> NoResponse])

Next ==
  \/ Receive
  \/ AxiosResponds
  \/ AxiosNetworkError
  \/ AxiosTimeout
  \/ AxiosLocalFault

Spec == Init /\ [][Next]_vars

\* ------------------------------------------------ the persistence layer
\* the Convex functions over the three tables. Of a history entry the owner
\* is kept, of a collection the owner and updatedAt, of an item the owner
\* and the parent collection. A function returns a value ("ok"), null, or
\* throws ("error").
Live(table, id) == table[id].state = "live"

FreshIds(table) == {id \in DOMAIN table : table[id].state = "free"}

\* ctx.db.insert: the next unused id of the table
Fresh(table) == CHOOSE id \in FreshIds(table) : \A j \in FreshIds(table) : id <= j

Document(userId, collectionId, updatedAt) ==
  [state |-> "live", userId |-> userId, collectionId |-> collectionId,
   updatedAt |-> updatedAt]

\* an ownership test that only asks for the document to exist
DeniedIfMissing(doc, userId) == doc.state # "live"

\* !doc || doc.userId !== args.userId
Denied(doc, userId) == doc.state # "live" \/ doc.userId # userId

\* a mutation that throws commits none of its writes; a query writes none
Returns(value) ==
  /\ result' = Reply(value, 0)
  /\ UNCHANGED <<now, history, collections, items>>

saveRequest(userId) ==
  /\ FreshIds(history) # {}
  /\ history' = [history EXCEPT ![Fresh(history)] = Document(userId, 0, 0)]
  /\ result' = Reply("ok", 0)
  /\ UNCHANGED <<now, collections, items, proxyVars>>

deleteHistoryItem(userId, historyId) ==
  /\ IF Denied(history[historyId], userId)
       THEN Returns("error")
       ELSE /\ history' = [history EXCEPT ![historyId] = DeletedRecord]
            /\ result' = Reply("ok", 0)
            /\ UNCHANGED <<now, collections, items>>
  /\ UNCHANGED proxyVars

clearUserHistory(userId) ==
  /\ history' = [h \in HistoryIds |->
                   IF Live(history, h) /\ history[h].userId = userId
                     THEN DeletedRecord ELSE history[h]]
  /\ result' = Reply("ok", 0)
  /\ UNCHANGED <<now, collections, items, proxyVars>>

getHistoryItem(userId, historyId) ==
  /\ IF Denied(history[historyId], userId) THEN Returns("null") ELSE Returns("ok")
  /\ UNCHANGED proxyVars

createCollection(userId) ==
  /\ FreshIds(collections) # {}
  /\ \E t \in now..MaxClock :
       /\ now' = t
       /\ collections' =
            [collections EXCEPT ![Fresh(collections)] = Document(userId, 0, t)]
  /\ result' = Reply("ok", 0)
  /\ UNCHANGED <<history, items, proxyVars>>

updateCollection(userId, collectionId) ==
  /\ IF Denied(collections[collectionId], userId)
       THEN Returns("error")
       ELSE /\ \E t \in now..MaxClock :
                 /\ now' = t
                 /\ collections' = [collections EXCEPT ![collectionId].updatedAt = t]
            /\ result' = Reply("ok", 0)
            /\ UNCHANGED <<history, items>>
  /\ UNCHANGED proxyVars

\* the by_collection index: the items whose collectionId is this one
ItemsOf(collectionId) ==
  {i \in ItemIds : Live(items, i) /\ items[i].collectionId = collectionId}

\* a deleteCollection that leaves the items of the collection in place
deleteCollectionOnly(userId, collectionId) ==
  /\ IF Denied(collections[collectionId], userId)
       THEN Returns("error")
       ELSE /\ items' = items
            /\ collections' = [collections EXCEPT ![collectionId] = DeletedRecord]
            /\ result' = Reply("ok", Cardinality(ItemsOf(collectionId)))
            /\ UNCHANGED <<now, history>>
  /\ UNCHANGED proxyVars

deleteCollection(userId, collectionId) ==
  /\ IF Denied(collections[collectionId], userId)
       THEN Returns("error")
       ELSE /\ items' = [i \in ItemIds |->
                           IF i \in ItemsOf(collectionId)
                             THEN DeletedRecord ELSE items[i]]
            /\ collections' = [collections EXCEPT ![collectionId] = DeletedRecord]
            /\ result' = Reply("ok", Cardinality(ItemsOf(collectionId)))
            /\ UNCHANGED <<now, history>>
  /\ UNCHANGED proxyVars

\* an addToCollection without the test of the collection
addToCollectionUnchecked(userId, collectionId) ==
  /\ FreshIds(items) # {}
  /\ IF FALSE
       THEN Returns("error")
       ELSE /\ \E t \in now..MaxClock :
                 /\ now' = t
                 /\ collections' = [collections EXCEPT ![collectionId].updatedAt = t]
            /\ items' = [items EXCEPT
                           ![Fresh(items)] = Document(userId, collectionId, 0)]
            /\ result' = Reply("ok", 0)
            /\ UNCHANGED history
  /\ UNCHANGED proxyVars

addToCollection(userId, collectionId) ==
  /\ FreshIds(items) # {}
  /\ IF Denied(collections[collectionId], userId)
       THEN Returns("error")
       ELSE /\ \E t \in now..MaxClock :
                 /\ now' = t
                 /\ collections' = [collections EXCEPT ![collectionId].updatedAt = t]
            /\ items' = [items EXCEPT
                           ![Fresh(items)] = Document(userId, collectionId, 0)]
            /\ result' = Reply("ok", 0)
            /\ UNCHANGED history
  /\ UNCHANGED proxyVars

getCollectionItems(userId, collectionId) ==
  /\ IF Denied(collections[collectionId], userId)
       THEN Returns("error")
       ELSE Returns("ok")
  /\ UNCHANGED proxyVars

\* the fields it patches on the item are not kept; ctx.db.patch of the
\* parent collection throws when that document is gone
updateCollectionItem(userId, itemId) ==
  /\ IF Denied(items[itemId], userId) \/ ~Live(collections, items[itemId].collectionId)
       THEN Returns("error")
       ELSE /\ \E t \in now..MaxClock :
                 /\ now' = t
                 /\ collections' =
                      [collections EXCEPT ![items[itemId].collectionId].updatedAt = t]
            /\ result' = Reply("ok", 0)
            /\ UNCHANGED <<history, items>>
  /\ UNCHANGED proxyVars

removeFromCollection(userId, itemId) ==
  /\ IF Denied(items[itemId], userId)
       THEN Returns("error")
       ELSE /\ items' = [items EXCEPT ![itemId] = DeletedRecord]
            /\ result' = Reply("ok", 0)
            /\ UNCHANGED <<now, history, collections>>
  /\ UNCHANGED proxyVars

moveCollectionItem(userId, itemId, newCollectionId) ==
  /\ IF \/ Denied(items[itemId], userId)
        \/ Denied(collections[newCollectionId], userId)
        \/ ~Live(collections, items[itemId].collectionId)
       THEN Returns("error")
       ELSE /\ \E t \in now..MaxClock :
                 /\ now' = t
                 /\ collections' =
                      [c \in CollectionIds |->
                         IF c \in {newCollectionId, items[itemId].collectionId}
                           THEN [collections[c] EXCEPT !.updatedAt = t]
                           ELSE collections[c]]
            /\ items' = [items EXCEPT ![itemId].collectionId = newCollectionId]
            /\ result' = Reply("ok", 0)
            /\ UNCHANGED history
  /\ UNCHANGED proxyVars

NextStore ==
  \E userId \in Users :
    \/ saveRequest(userId)
    \/ \E historyId \in HistoryIds : deleteHistoryItem(userId, historyId)
    \/ clearUserHistory(userId)
    \/ \E historyId \in HistoryIds : getHistoryItem(userId, historyId)
    \/ createCollection(userId)
    \/ \E collectionId \in CollectionIds : updateCollection(userId, collectionId)
    \/ \E collectionId \in CollectionIds : deleteCollection(userId, collectionId)
    \/ \E collectionId \in CollectionIds : addToCollection(userId, collectionId)
    \/ \E collectionId \in CollectionIds : getCollectionItems(userId, collectionId)
    \/ \E itemId \in ItemIds : updateCollectionItem(userId, itemId)
    \/ \E itemId \in ItemIds : removeFromCollection(userId, itemId)
    \/ \E itemId \in ItemIds, newCollectionId \in CollectionIds :
         moveCollectionItem(userId, itemId, newCollectionId)

\* the store does not depend on the configuration of the process
InitStore == Init /\ nodeEnv = "production"

SpecStore == InitStore /\ [][NextStore]_vars

\* --------------------------------------------- the storage routes
\* the server's own routes over the history, collections and
\* collection_items tables of the database. A route answers that the data
\* is in the database, or, when no database is configured or the insert
\* reports an error, that it is kept locally, without a write.
postHistorySave(userId) ==
  /\ \/ /\ FreshIds(history) # {}
        /\ history' = [history EXCEPT ![Fresh(history)] = Document(userId, 0, 0)]
        /\ result' = Reply("database", 0)
     \/ /\ UNCHANGED history
        /\ result' = Reply("local", 0)
  /\ UNCHANGED <<now, collections, items, proxyVars>>

postCollection(userId) ==
  /\ \/ /\ FreshIds(collections) # {}
        /\ \E t \in now..MaxClock :
             /\ now' = t
             /\ collections' =
                  [collections EXCEPT ![Fresh(collections)] = Document(userId, 0, t)]
        /\ result' = Reply("database", 0)
     \/ /\ UNCHANGED <<now, collections>>
        /\ result' = Reply("local", 0)
  /\ UNCHANGED <<history, items, proxyVars>>

\* the insert is taken to succeed only for a collection_id that has a row
postCollectionItem(userId, collectionId) ==
  /\ \/ /\ FreshIds(items) # {}
        /\ Live(collections, collectionId)
        /\ items' = [items EXCEPT
                       ![Fresh(items)] = Document(userId, collectionId, 0)]
        /\ \E t \in now..MaxClock :
             /\ now' = t
             /\ collections' = [collections EXCEPT ![collectionId].updatedAt = t]
        /\ result' = Reply("database", 0)
     \/ /\ UNCHANGED <<now, collections, items>>
        /\ result' = Reply("local", 0)
  /\ UNCHANGED <<history, proxyVars>>

NextRoute ==
  \E userId \in Users :
    \/ postHistorySave(userId)
    \/ postCollection(userId)
    \/ \E collectionId \in CollectionIds : postCollectionItem(userId, collectionId)

SpecRoute == Init /\ [][NextRoute]_vars

\* ------------------------------------------- the proxy call at the guard
\* the same handler under more destinations
U_LOCALHOST_DOT == <<"h", "t", "t", "p", ":", "/", "/", "l", "o", "c", "a", "l", "h", "o", "s", "t", ".", "e", "x", "a", "m", "p", "l", "e", ".", "c", "o", "m", "/">>
U_LOOPBACK_10 == <<"h", "t", "t", "p", ":", "/", "/", "1", "2", "7", ".", "0", ".", "0", ".", "1", "0", "/">>
U_ZERO == <<"h", "t", "t", "p", ":", "/", "/", "0", ".", "0", ".", "0", ".", "0", "/">>
U_IPV6 == <<"h", "t", "t", "p", ":", "/", "/", "[", ":", ":", "1", "]", "/">>
U_100 == <<"h", "t", "t", "p", ":", "/", "/", "1", "0", "0", ".", "1", ".", "1", ".", "1", "/">>

PolicyUrls ==
  PrivateUrls \cup PublicUrls \cup
    {U_LOCALHOST_DOT, U_LOOPBACK_10, U_ZERO, U_IPV6, U_100, U_NOT_A_URL}

PolicyPayloads ==
  [url : PolicyUrls, method : {Undefined, M_GET},
   headers : {NoHeaders, HeadersObject([k \in {K_X_CUSTOM} |-> "caller-1"])},
   body : {"undefined"}, timeout : {TUndefined}, auth : {NoAuth}]

ReceivePolicy == ReceiveFrom(PolicyPayloads)

NextPolicy ==
  \/ ReceivePolicy
  \/ AxiosResponds
  \/ AxiosNetworkError
  \/ AxiosTimeout
  \/ AxiosLocalFault

SpecPolicy == Init /\ [][NextPolicy]_vars

\* ------------------------------------------- the proxy call on the wire
\* the same handler under payloads that vary what the transport is handed,
\* more upstream answers, and the middleware stack around the handler
U_HOST == <<"h", "t", "t", "p", ":", "/", "/", "h", "o", "s", "t">>

WireTimeouts == {
  TUndefined, TNull, TNumber(50), TNumber(0),
  TString(<<"5", "0">>), TString(<<"a", "b", "c">>) }

WirePayloads ==
  [url : {U_PUBLIC, U_HOST}, method : {M_GET, M_POST},
   headers : {NoHeaders, HeadersObject([k \in {K_X_CUSTOM} |-> "caller-1"])},
   body : {"undefined", "{\"a\":1}"},
   timeout : WireTimeouts,
   auth : {NoAuth, [present |-> TRUE, type |-> "medimapper", token |-> "tok"]}]

WireResponses ==
  StubResponses \cup {
    StubResponse(101, "Switching Protocols", "text/plain", "string", <<>>, FALSE),
    StubResponse(204, "No Content", "text/plain", "string", <<>>, FALSE),
    StubResponse(302, "Found", "application/json", "object", <<"{", "\"", "t", "o", "\"", ":", "\"", "/", "b", "\"", "}">>, TRUE) }

ReceiveWire == ReceiveFrom(WirePayloads)

AxiosRespondsWire == AxiosRespondsWith(WireResponses)

\* express.json() cannot parse the request body and passes its error on
BodyParseMessage == "Unexpected token in JSON"

\* a catch block that answers 500 and also passes the error on
HandlerForwardsAlways(reply) == reply.httpStatus = 500

\* the catch block of the handler answers in every branch and passes
\* nothing on to the next middleware
HandlerForwards(reply) == FALSE

\* app.use((error, req, res, next) => ...): the reply of the safety net
ErrorMiddlewareReply(message, env) ==
  [EmptyReply EXCEPT
     !.httpStatus = 500,
     !.fields = {"error", "message"},
     !.error = "Internal server error",
     !.message = IF env = "development" THEN message ELSE "Something went wrong"]

ErrorMiddleware ==
  /\ \/ /\ pc = "idle"
        /\ sent' = Append(sent, ErrorMiddlewareReply(BodyParseMessage, nodeEnv))
     \/ /\ pc = "done"
        /\ Len(sent) > 0
        /\ HandlerForwards(sent[Len(sent)])
        /\ sent' = Append(sent, ErrorMiddlewareReply(sent[Len(sent)].error, nodeEnv))
  /\ pc' = "handled"
  /\ UNCHANGED <<nodeEnv, req, now, startTime, config, axiosCalls, attempts,
                 outcome, storeVars>>

NextWire ==
  \/ ReceiveWire
  \/ AxiosRespondsWire
  \/ AxiosNetworkError
  \/ AxiosTimeout
  \/ AxiosLocalFault
  \/ ErrorMiddleware

SpecWire == Init /\ [][NextWire]_vars

TypeOK ==
  /\ pc \in {"idle", "awaiting", "done", "handled"}
  /\ axiosCalls \in 0..1
  /\ now \in 0..MaxClock

\* ============================================================ the claims
\* the call has been received (req holds its payload)
Received == pc # "idle"

\* the call has ended
Done == pc = "done"

\* the payload has no url, no method, or a url that is no absolute URL
BadInput(p) ==
  \/ p.url \in {Undefined, <<>>, U_NOT_A_URL}
  \/ p.method \in {Undefined, <<>>}

\* a spec as the data model describes it: url an absolute URL, method a
\* string, headers a mapping or absent
ValidSpec(p) ==
  /\ ~BadInput(p)
  /\ p.method # NumberValue
  /\ p.headers.kind \in {"undefined", "object"}

\* the keys of the config's header mapping whose lower-case form is name
KeysNamed(name) == {k \in DOMAIN config.headers.map : ToLowerCase(k) = name}

\* C1: a call whose payload has no url, no method or an unparseable url
\* ends with one 400 reply carrying an error string and a duration >= 0,
\* and axios is never called for it.
C1_InvalidInputGives400 ==
  (Received /\ BadInput(req)) =>
    /\ Done
    /\ axiosCalls = 0
    /\ Len(sent) = 1
    /\ sent[1].httpStatus = 400
    /\ sent[1].fields = {"error", "duration"}
    /\ sent[1].error # ""
    /\ sent[1].duration >= 0

C1_Witness ==
  /\ Done
  /\ req.url = U_NOT_A_URL
  /\ req.method = M_GET
  /\ sent[1].httpStatus = 400

\* C2: a valid spec whose hostname is localhost, 127.0.0.1 or in a private
\* range ends, in production, with a 403 reply and no axios call; outside
\* production it is never answered 403 and axios is called for it.
C2_PrivateHostPolicy ==
  (Received /\ ValidSpec(req) /\ req.url \in PrivateUrls) =>
    IF nodeEnv = "production"
      THEN Done /\ axiosCalls = 0 /\ Len(sent) = 1 /\ sent[1].httpStatus = 403
      ELSE axiosCalls = 1 /\ \A i \in 1..Len(sent) : sent[i].httpStatus # 403

\* C3: the config handed to axios holds no caller-supplied value under a
\* key that is, in any letter case, one of the disallowed header names.
C3_NoCallerValueUnderDisallowedKey ==
  axiosCalls > 0 =>
    \A k \in DOMAIN config.headers.map :
      ToLowerCase(k) \in disallowedHeaders => config.headers.map[k] \notin CallerValues

\* C4: an upstream answer with a 4xx or 5xx status ends the call with a
\* reply carrying the upstream's status and statusText and error: true,
\* not with a local failure.
C4_UpstreamErrorIsFlagged ==
  (Done /\ outcome.kind = "response" /\ outcome.response.status \in 400..599) =>
    /\ Len(sent) = 1
    /\ sent[1].httpStatus = 200
    /\ {"status", "statusText"} \subseteq sent[1].fields
    /\ sent[1].status = outcome.response.status
    /\ sent[1].statusText = outcome.response.statusText
    /\ "error" \in sent[1].fields
    /\ sent[1].errorFlag

\* C5: the config carries a body exactly when the method is, in any letter
\* case, POST, PUT, PATCH or DELETE and the payload supplied a body, and
\* the body it carries is the supplied one.
C5_BodyAttachedIffSupplied ==
  axiosCalls > 0 =>
    /\ config.hasData <=>
         (req.method \in {M_POST, M_PUT, M_PATCH, M_DELETE} /\ req.body # "undefined")
    /\ config.hasData => config.data = req.body

\* how the outbound exchange failed, by cause
Refused == outcome.kind = "network" /\ outcome.code = "ECONNREFUSED"
Unresolved == outcome.kind = "network" /\ outcome.code = "ENOTFOUND"
DeadlineExceeded ==
  \/ outcome.kind = "timeout"
  \/ outcome.kind = "network" /\ outcome.code = "ETIMEDOUT"
Dropped == outcome.kind = "network" /\ outcome.code = "ECONNRESET"
LocalFault == outcome.kind \in {"local", "thrown"}

\* C6: a transport failure is answered by cause: refused 503, unresolved
\* 404, deadline exceeded 408, no response received 502, any other local
\* fault 500, each with an error string and a duration.
C6_FailureStatusByCause ==
  (Done /\ outcome.kind \in {"network", "timeout", "local", "thrown"}) =>
    /\ Len(sent) = 1
    /\ sent[1].fields = {"error", "duration"}
    /\ sent[1].error # ""
    /\ Refused => sent[1].httpStatus = 503
    /\ Unresolved => sent[1].httpStatus = 404
    /\ DeadlineExceeded => sent[1].httpStatus = 408
    /\ Dropped => sent[1].httpStatus = 502
    /\ LocalFault => sent[1].httpStatus = 500

\* C7: when the per-call timeout elapses without an upstream answer, the
\* call ends with a 408 reply.
C7_TimeoutGives408 ==
  (Done /\ outcome.kind = "timeout") =>
    Len(sent) = 1 /\ sent[1].httpStatus = 408

\* C8: a call never has two responses, has none before it ends and exactly
\* one when it has ended, and that response carries a duration >= 0.
C8_ExactlyOneResponse ==
  /\ Len(sent) <= 1
  /\ ~Done => Len(sent) = 0
  /\ Done =>
       /\ Len(sent) = 1
       /\ "duration" \in sent[1].fields
       /\ sent[1].duration >= 0

C8_Witness ==
  /\ Done
  /\ Len(sent) = 1
  /\ outcome.kind = "response"
  /\ nodeEnv = "production"
  /\ sent[1].duration > 0

\* the spec passed validation and the egress guard
Validated(p) == ValidSpec(p) /\ \A i \in 1..Len(sent) : sent[i].httpStatus # 403

\* C9: a validated spec with auth.type 'medimapper' and a token, with or
\* without a headers mapping, is dispatched with Authorization set to
\* 'Bearer <token>' and no caller-supplied authorization value, in any
\* letter case, beside it.
C9_BearerReplacesAuthorization ==
  (Received /\ Validated(req) /\ req.auth.present
     /\ req.auth.type = "medimapper" /\ req.auth.token # "") =>
    /\ axiosCalls = 1
    /\ KeysNamed(ToLowerCase(AuthorizationKey)) = {AuthorizationKey}
    /\ config.headers.map[AuthorizationKey] = BearerValue(req.auth.token)

\* C10: every config handed to axios carries a user-agent header, and when
\* no caller-supplied user-agent remains in it, it is the default one.
C10_UserAgentAlwaysPresent ==
  axiosCalls > 0 =>
    /\ KeysNamed(UserAgentKey) # {}
    /\ (\A k \in KeysNamed(UserAgentKey) : config.headers.map[k] \notin CallerValues)
         => (UserAgentKey \in DOMAIN config.headers.map
             /\ config.headers.map[UserAgentKey] = DefaultUserAgent)


\* the timeout field holds an integer: a number, or a string of digits only
AllDigits(s) == Len(s) > 0 /\ \A i \in 1..Len(s) : IsDigit(s[i])

SuppliedInteger(t) == t.type = "number" \/ (t.type = "string" /\ AllDigits(t.s))

IntegerOf(t) == IF t.type = "number" THEN t.n ELSE LeadingDigits(t.s, 1, 0)

\* C11: the timeout handed to the transport is always a number of
\* milliseconds: the supplied value when it parses as an integer, and 30000
\* when none is supplied or the supplied one does not parse (null, "abc")
C11_TimeoutIsNumber ==
  axiosCalls > 0 =>
    /\ ~config.timeout.nan
    /\ config.timeout.n = IF SuppliedInteger(req.timeout)
                            THEN IntegerOf(req.timeout)
                            ELSE DefaultTimeout

\* C12: whatever status the upstream returns, 1xx through 5xx and 3xx
\* included, the call ends with a result of the Success or UpstreamError
\* shape that carries that status and status text, never with a failure
\* status chosen locally
C12_UpstreamStatusIsRelayed ==
  (Done /\ outcome.kind = "response" /\ outcome.response.status \in 100..599) =>
    /\ Len(sent) = 1
    /\ sent[1].httpStatus = 200
    /\ {"status", "statusText"} \subseteq sent[1].fields
    /\ sent[1].status = outcome.response.status
    /\ sent[1].statusText = outcome.response.statusText
    /\ sent[1].error = ""

C12_Witness ==
  /\ Done
  /\ outcome.kind = "response"
  /\ outcome.response.status = 301
  /\ sent[1].status = 301
  /\ sent[1].statusText = "Moved Permanently"

\* the transport reports a resolved URL, and it is not the requested one,
\* neither as the caller wrote it nor as the parser normalizes it
Rewritten(response, url) ==
  response.responseUrl \notin {Undefined, url, Href(url)}

\* C13: in a Success result redirected is true exactly when the final URL
\* the transport reports differs from the requested URL; when the transport
\* reports none or did not rewrite it, redirected is false, also for a
\* requested URL the parser normalizes ('http://host' to 'http://host/')
C13_RedirectedIffRewritten ==
  (Done /\ Len(sent) = 1 /\ "redirected" \in sent[1].fields) =>
    (sent[1].redirected <=> Rewritten(outcome.response, req.url))

\* the fields every result of a completed exchange is said to carry
CommonFields ==
  {"status", "statusText", "headers", "data", "duration", "size", "redirected"}

\* C14: every result of a completed exchange has the same fields whichever
\* path produced it: status, statusText, headers, data, duration, size and
\* redirected are in a Success and in an UpstreamError result alike, and
\* the latter differs only by the added error flag
C14_SameFieldsOnBothPaths ==
  (Done /\ outcome.kind = "response" /\ Len(sent) = 1) =>
    /\ CommonFields \subseteq sent[1].fields
    /\ sent[1].fields \ CommonFields \subseteq {"error"}

\* destinations whose hostname begins with an entry of the denylist, and
\* those among them whose hostname only begins with one of the four
\* loopback entries without being equal to it
BeginsWithEntry ==
  PrivateUrls \cup {U_LOCALHOST_DOT, U_LOOPBACK_10, U_ZERO}

NearMissUrls == {U_LOCALHOST_DOT, U_LOOPBACK_10}

Answered403 == \E i \in 1..Len(sent) : sent[i].httpStatus = 403

\* C15 (as stated): in restricted mode localhost, 127.0.0.1, 0.0.0.0 and
\* ::1 are exact matches: a hostname that merely begins with one of them
\* (localhost.example.com, 127.0.0.10) is not blocked and reaches the
\* dispatcher
C15_ExactEntries ==
  (Received /\ nodeEnv = "production" /\ ~BadInput(req)
     /\ req.url \in NearMissUrls) =>
    (~Answered403 /\ axiosCalls = 1)

\* C15 (amended): in restricted mode every entry of the denylist, the four
\* loopback entries included, is matched as a prefix of the hostname: a
\* hostname that begins with an entry (localhost.example.com, 127.0.0.10)
\* is answered 403 without an outbound call, and a hostname that begins
\* with no entry is not answered 403
C15_EntriesArePrefixes ==
  (Received /\ nodeEnv = "production" /\ ~BadInput(req)) =>
    IF req.url \in BeginsWithEntry
      THEN Done /\ Len(sent) = 1 /\ sent[1].httpStatus = 403 /\ axiosCalls = 0
      ELSE ~Answered403

C15_Witness ==
  /\ Done
  /\ nodeEnv = "production"
  /\ req.url = U_LOCALHOST_DOT
  /\ sent[1].httpStatus = 403
  /\ axiosCalls = 0

\* the fixed texts a 500 answer may carry outside development
GenericTexts == {"", "Internal server error", "Something went wrong"}

\* C16: when an unanticipated local fault ends a proxy call with status 500
\* and the process is not in its development configuration, the error
\* text of the result is a fixed generic string, never the fault's own
\* message
C16_LocalFaultIsRedacted ==
  \A i \in 1..Len(sent) :
    (sent[i].httpStatus = 500 /\ nodeEnv # "development") =>
      (sent[i].error \in GenericTexts /\ sent[i].message \in GenericTexts)

\* a reply with the payload of the safety net
SafetyNetReply(r) == r.fields = {"error", "message"}

\* C17: the top-level safety net answers an unhandled fault with a
\* structured 500 error payload, and it writes a response only if none has
\* been written for the call before
C17_SafetyNetAnswersOnce ==
  /\ [](pc = "handled" =>
          /\ Len(sent) > 0
          /\ SafetyNetReply(sent[Len(sent)])
          /\ sent[Len(sent)].httpStatus = 500
          /\ sent[Len(sent)].error = "Internal server error")
  /\ [][(Len(sent') > Len(sent) /\ SafetyNetReply(sent'[Len(sent')]))
          => sent = << >>]_vars

C17_Witness ==
  /\ pc = "handled"
  /\ Len(sent) = 1
  /\ SafetyNetReply(sent[1])
  /\ sent[1].httpStatus = 500
  /\ sent[1].message = "Something went wrong"

\* C18: each proxy call makes at most one outbound request: none is
\* repeated after a failure, and no redirect is chased after a 3xx answer
C18_AtMostOneOutboundRequest ==
  /\ axiosCalls <= 1
  /\ attempts <= 1
  /\ (Done => attempts = axiosCalls)

C18_Witness ==
  /\ Done
  /\ outcome.kind = "response"
  /\ outcome.response.status = 301
  /\ attempts = 1

\* the stored record exists and belongs to the acting user
Owns(table, id, userId) == table[id].state = "live" /\ table[id].userId = userId

\* the function returns null or fails, and no stored record changes
Refuses ==
  /\ result'.value \in {"null", "error"}
  /\ UNCHANGED <<history, collections, items>>

\* C19: in the persistence layer every function that reads or mutates one
\* stored record by id takes effect only when the acting userId equals the
\* record's userId; when it does not, or the record does not exist, the
\* function returns null or fails and leaves every stored record unchanged:
\* a step is such a refusal, or a step of none of these functions called
\* by a user who does not own the record
C19_OnlyTheOwnerTakesEffect ==
  [][\/ Refuses
     \/ \A userId \in Users :
          /\ \A historyId \in HistoryIds :
               \/ Owns(history, historyId, userId)
               \/ ~ \/ getHistoryItem(userId, historyId)
                    \/ deleteHistoryItem(userId, historyId)
          /\ \A collectionId \in CollectionIds :
               \/ Owns(collections, collectionId, userId)
               \/ ~ \/ updateCollection(userId, collectionId)
                    \/ deleteCollection(userId, collectionId)
                    \/ getCollectionItems(userId, collectionId)
                    \/ addToCollection(userId, collectionId)
          /\ \A itemId \in ItemIds :
               \/ Owns(items, itemId, userId)
               \/ ~ \/ removeFromCollection(userId, itemId)
                    \/ updateCollectionItem(userId, itemId)
                    \/ \E newCollectionId \in CollectionIds :
                         moveCollectionItem(userId, itemId, newCollectionId)]_vars

\* a function has failed although every record exists: the acting user was
\* not the owner, and no record has changed
C19_Witness ==
  /\ result.value = "error"
  /\ \A historyId \in HistoryIds : Live(history, historyId)
  /\ \A collectionId \in CollectionIds : Live(collections, collectionId)
  /\ \A itemId \in ItemIds : Live(items, itemId)

\* C20: the server route POST /api/collections/:collectionId/items mutates
\* the store only when the acting userId owns the target collection
C20_RouteWritesOnlyForTheOwner ==
  [][\A userId \in Users, collectionId \in CollectionIds :
       (/\ postCollectionItem(userId, collectionId)
        /\ <<collections, items>>' # <<collections, items>>)
         => Owns(collections, collectionId, userId)]_vars

\* the items that belong to a collection
Belonging(collectionId) ==
  {i \in ItemIds : items[i].state = "live" /\ items[i].collectionId = collectionId}

C22_ParsedOnlyWhenJson ==
  (Done /\ outcome.kind = "response") =>
    /\ Len(sent) = 1
    /\ sent[1].httpStatus = 200
    /\ "data" \in sent[1].fields
    /\ sent[1].status = outcome.response.status
    /\ sent[1].data.raw = outcome.response.data
    /\ sent[1].data.parsed =>
         /\ IncludesJson(outcome.response.contentType)
         /\ outcome.response.data.type = "string"

====
